---- MODULE Spec2Model ----
(***************************************************************************)
(* A model of streamlit-main.py: the layout arithmetic (calculate_layout), *)
(* the grid renderer (create_pdf_labels) and the per-image loop of main.   *)
(*                                                                         *)
(* Numbers.  The program computes in Python floats.  The model computes in *)
(* exact rationals [n, d] (d > 0, lowest terms), so a statement about an   *)
(* equality of computed lengths is a statement about the exact values; the *)
(* rounding of IEEE doubles (of the order of 1e-14 points) is not          *)
(* modelled.  The unit factor mm is reportlab's 72 / 25.4 = 360 / 127.     *)
(*                                                                         *)
(* Strings that the program parses are sequences of one-character strings. *)
(***************************************************************************)
EXTENDS Integers, Sequences, FiniteSets, TLC

(***************************************************************************)
(* Bounds of the model.                                                    *)
(***************************************************************************)
MaxRows == 2
MaxColumns == 3
MaxFiles == 3

(***************************************************************************)
(* Exact rational arithmetic.                                              *)
(***************************************************************************)
Abs(i) == IF i < 0 THEN -i ELSE i

RECURSIVE GCD(_, _)
GCD(a, b) == IF b = 0 THEN a ELSE GCD(b, a % b)

Rat(n, d) ==
    LET g == GCD(Abs(n), Abs(d))
        s == IF d < 0 THEN -1 ELSE 1
    IN  [n |-> (s * n) \div g, d |-> (s * d) \div g]

FromInt(i) == [n |-> i, d |-> 1]

LCM(a, b) == (a \div GCD(a, b)) * b

RAdd(a, b) ==
    LET l == LCM(a.d, b.d)
    IN  Rat(a.n * (l \div a.d) + b.n * (l \div b.d), l)

RNeg(a) == [n |-> -a.n, d |-> a.d]

RSub(a, b) == RAdd(a, RNeg(b))

RMul(a, b) ==
    LET g1 == GCD(Abs(a.n), b.d)
        g2 == GCD(Abs(b.n), a.d)
    IN  Rat((a.n \div g1) * (b.n \div g2), (a.d \div g2) * (b.d \div g1))

\* a / b for b # 0
RDiv(a, b) == RMul(a, IF b.n < 0 THEN [n |-> -b.d, d |-> -b.n] ELSE [n |-> b.d, d |-> b.n])

RGt(a, b) == RSub(a, b).n > 0

RLe(a, b) == ~RGt(a, b)

RECURSIVE Pow10(_)
Pow10(k) == IF k = 0 THEN 1 ELSE 10 * Pow10(k - 1)

Max(a, b) == IF a > b THEN a ELSE b

(***************************************************************************)
(* reportlab.lib.units.mm (points per millimetre) and the page sizes.      *)
(***************************************************************************)
mm == Rat(360, 127)

MM(v) == RMul(v, mm)

A4 == <<MM(FromInt(210)), MM(FromInt(297))>>

\* 8.5 * 25.4 = 215.9, 11 * 25.4 = 279.4, 14 * 25.4 = 355.6 (millimetres)
page_size_dict ==
    [A4     |-> A4,
     Letter |-> <<MM(Rat(2159, 10)), MM(Rat(2794, 10))>>,
     Legal  |-> <<MM(Rat(2159, 10)), MM(Rat(3556, 10))>>]

\* reportlab.lib.pagesizes.landscape: the longer side becomes the width
reportlab_landscape(size) ==
    IF RGt(size[2], size[1]) THEN <<size[2], size[1]>> ELSE size

\* str.lower() on the display names the program uses
Lower(name) ==
    CASE name = "A4" -> "a4"
      [] name = "Letter" -> "letter"
      [] name = "Legal" -> "legal"
      [] name = "Custom" -> "custom"

(***************************************************************************)
(* Parsing of the "width x height" text: str.split('x') and float().       *)
(***************************************************************************)
Digits == {"0", "1", "2", "3", "4", "5", "6", "7", "8", "9"}

DigitVal(c) ==
    CASE c = "0" -> 0 [] c = "1" -> 1 [] c = "2" -> 2 [] c = "3" -> 3
      [] c = "4" -> 4 [] c = "5" -> 5 [] c = "6" -> 6 [] c = "7" -> 7
      [] c = "8" -> 8 [] c = "9" -> 9

\* s.split(sep): the pieces between the occurrences of sep (always >= 1 piece)
RECURSIVE SplitFrom(_, _, _, _)
SplitFrom(s, sep, i, cur) ==
    IF i > Len(s) THEN <<cur>>
    ELSE IF s[i] = sep THEN <<cur>> \o SplitFrom(s, sep, i + 1, <<>>)
    ELSE SplitFrom(s, sep, i + 1, Append(cur, s[i]))

Split(s, sep) == SplitFrom(s, sep, 1, <<>>)

RECURSIVE StripLeft(_)
StripLeft(s) == IF s # <<>> /\ s[1] = " " THEN StripLeft(Tail(s)) ELSE s

RECURSIVE StripRight(_)
StripRight(s) ==
    IF s # <<>> /\ s[Len(s)] = " " THEN StripRight(SubSeq(s, 1, Len(s) - 1)) ELSE s

Strip(s) == StripLeft(StripRight(s))

RECURSIVE DigitsValue(_, _)
DigitsValue(s, acc) ==
    IF s = <<>> THEN acc ELSE DigitsValue(Tail(s), 10 * acc + DigitVal(s[1]))

AllDigits(s) == \A i \in 1..Len(s) : s[i] \in Digits

\* float(s) for plain decimal literals: surrounding blanks, an optional sign,
\* digits with at most one point and at least one digit.  Anything else is a
\* ValueError ([ok |-> FALSE]).  Exponents, inf, nan and underscores are not
\* modelled; no input of the model uses them.
ParseFloat(text) ==
    LET s     == Strip(text)
        neg   == s # <<>> /\ s[1] = "-"
        body  == IF s # <<>> /\ s[1] \in {"-", "+"} THEN Tail(s) ELSE s
        parts == Split(body, ".")
        ip    == parts[1]
        fp    == IF Len(parts) = 2 THEN parts[2] ELSE <<>>
        ok    == /\ Len(parts) <= 2
                 /\ AllDigits(ip) /\ AllDigits(fp)
                 /\ Len(ip) + Len(fp) >= 1
        mag   == Rat(DigitsValue(ip \o fp, 0), Pow10(Len(fp)))
    IN  IF ok THEN [ok |-> TRUE, value |-> IF neg THEN RNeg(mag) ELSE mag]
        ELSE [ok |-> FALSE]

\* width, height = map(float, label_dimensions.split('x'))
\* unpacking needs exactly two pieces and each piece must be a float
ParseDimensions(text) ==
    LET pieces == Split(text, "x")
        w == ParseFloat(pieces[1])
        h == ParseFloat(pieces[2])
    IN  IF Len(pieces) = 2 /\ w.ok /\ h.ok
        THEN [ok |-> TRUE, value |-> <<w.value, h.value>>]
        ELSE [ok |-> FALSE]

(***************************************************************************)
(* calculate_layout.  The pieces of its arithmetic are operators of their  *)
(* own; calculate_layout puts them together in the order of the code.      *)
(***************************************************************************)
\* available_width / available_height: the page side less its two margins
available_space(side, near, far) == RSub(side, RAdd(near, far))

\* (mutant) the division of line 21 done as a floor division
derived_label_FloorDiv(available, count) ==
    FromInt((available.n \div available.d) \div count)

\* label_width / label_height when no dimensions are given
derived_label(available, count) == RDiv(available, FromInt(count))

\* (mutant) the gap divided by the number of cells, not of gaps
space_between_labels_DivCount(available, label, count) ==
    RDiv(RSub(available, RMul(label, FromInt(count))), FromInt(count))

\* space_between_labels_x / space_between_labels_y
space_between_labels(available, label, count) ==
    RDiv(RSub(available, RMul(label, FromInt(count))), FromInt(Max(count - 1, 1)))

\* (mutant) a cell that exactly fills the available side is rejected too
too_large_OrEqual(label_width, label_height, available_width, available_height) ==
    RLe(available_width, label_width) \/ RLe(available_height, label_height)

\* the check that raises ValueError("Label dimensions are too large ...")
too_large(label_width, label_height, available_width, available_height) ==
    RGt(label_width, available_width) \/ RGt(label_height, available_height)

\* The outcome of one call: whether it raised, the returned dict when it did
\* not, and the label_info dict as the call leaves it (the argument is a dict
\* that the function assigns into).
calculate_layout(page_settings, label_info) ==
    LET margins == [key \in DOMAIN page_settings.margins |->
                        MM(FromInt(page_settings.margins[key]))]
        available_width ==
            available_space(page_settings.page_size[1], margins.left, margins.right)
        available_height ==
            available_space(page_settings.page_size[2], margins.top, margins.bottom)
        absent == "dimensions" \notin DOMAIN label_info
        label_width ==
            IF absent THEN derived_label(available_width, label_info.columns)
            ELSE MM(label_info.dimensions[1])
        label_height ==
            IF absent THEN derived_label(available_height, label_info.rows)
            ELSE MM(label_info.dimensions[2])
        info_after ==
            IF absent
            THEN [dimensions |-> <<RDiv(label_width, mm), RDiv(label_height, mm)>>]
                 @@ label_info
            ELSE label_info
        space_x == space_between_labels(available_width, label_width, label_info.columns)
        space_y == space_between_labels(available_height, label_height, label_info.rows)
    IN  IF too_large(label_width, label_height, available_width, available_height)
        THEN [raised |-> TRUE, label_info |-> info_after]
        ELSE [raised |-> FALSE, label_info |-> info_after,
              value |-> [label_width |-> label_width, label_height |-> label_height,
                         space_x |-> space_x, space_y |-> space_y]]

(***************************************************************************)
(* create_pdf_labels: the position of the cell (row, col).                 *)
(***************************************************************************)
draw_x(page_settings, layout, col) ==
    RAdd(MM(FromInt(page_settings.margins.left)),
         RMul(FromInt(col), RAdd(layout.label_width, layout.space_x)))

\* (mutant) the cell's own height is not subtracted: row, not row + 1
draw_y_RowOnly(page_settings, layout, row) ==
    RSub(page_settings.page_size[2],
         RAdd(RAdd(MM(FromInt(page_settings.margins.top)),
                   RMul(FromInt(row), layout.label_height)),
              RMul(FromInt(row), layout.space_y)))

draw_y(page_settings, layout, row) ==
    RSub(page_settings.page_size[2],
         RAdd(RAdd(MM(FromInt(page_settings.margins.top)),
                   RMul(FromInt(row + 1), layout.label_height)),
              RMul(FromInt(row), layout.space_y)))

(***************************************************************************)
(* The state of one run of main.                                           *)
(*   The widget values (lines 49-74) are fixed during the run.             *)
(*   messages   what st.success / st.error have shown, in order            *)
(*   downloads  the documents offered by st.download_button, in order      *)
(*   disk       the files written: the copies of the uploads and the       *)
(*              documents written by Canvas.save                           *)
(*   log        one record per image the loop has started: what happened   *)
(*              to it (a history of the run, read only by the properties)  *)
(***************************************************************************)
VARIABLES page_size, page_size_display, orientation,
          top_margin, bottom_margin, left_margin, right_margin,
          label_files, label_rows, label_columns, label_dimensions,
          pc, index, page_settings, label_info, layout, output_filename,
          canvas, row, col, messages, downloads, disk, log

inputs == <<page_size, page_size_display, orientation,
            top_margin, bottom_margin, left_margin, right_margin,
            label_files, label_rows, label_columns, label_dimensions>>

locals == <<page_settings, label_info, layout, output_filename>>

vars == <<inputs, pc, index, locals, canvas, row, col, messages, downloads, disk, log>>

None == [none |-> TRUE]

\* lines 49-62: the page size in points for the chosen name and orientation
SelectPageSize(choice, width, height, orient) ==
    LET size == IF choice = "Custom"
                THEN <<MM(FromInt(width)), MM(FromInt(height))>>
                ELSE page_size_dict[choice]
    IN  IF orient = "Landscape" THEN reportlab_landscape(size) ELSE size

\* The texts typed into "Label Dimensions"
DimensionTexts ==
    { <<>>,
      <<"1", "5", "0", "x", "5", "0">>,
      <<"4", "0", " ", "x", " ", "3", "0">>,
      <<"9", ".", "5", "x", "2", "0">>,
      <<"-", "3", "0", "x", "-", "3", "0">>,
      <<"a", "b", "c">>,
      <<"1", "x", "2", "x", "3">> }

\* The uploaded files: name = <<stem, suffix>>
Uploads == <<<<"a", "png">>, <<"b", "jpg">>, <<"c", "png">>, <<"d", "png">>>>

Stem(name) == name[1]

FileLists(most) ==
    {[is_none |-> TRUE]} \cup
    {[is_none |-> FALSE, list |-> SubSeq(Uploads, 1, k)] : k \in 0..most}

InitWith(choices, sides, margin_values, file_lists) ==
    /\ \E choice \in choices, width \in sides, height \in sides,
          orient \in {"Portrait", "Landscape"} :
          /\ choice # "Custom" => width = height
          /\ page_size = SelectPageSize(choice, width, height, orient)
          /\ page_size_display = choice
          /\ orientation = orient
    /\ top_margin \in margin_values
    /\ bottom_margin \in margin_values
    /\ left_margin \in margin_values
    /\ right_margin \in margin_values
    /\ label_files \in file_lists
    /\ label_rows \in 1..MaxRows
    /\ label_columns \in 1..MaxColumns
    /\ label_dimensions \in DimensionTexts
    /\ pc = "start"
    /\ index = 0
    /\ page_settings = None
    /\ label_info = None
    /\ layout = None
    /\ output_filename = None
    /\ canvas = None
    /\ row = 0
    /\ col = 0
    /\ messages = <<>>
    /\ downloads = <<>>
    /\ disk = <<>>
    /\ log = <<>>

\* A batch of up to MaxFiles images on a few page geometries
Init == InitWith({"A4", "Custom"}, {100}, {10}, FileLists(MaxFiles))

\* One image on a wide range of page geometries
InitOne ==
    InitWith({"A4", "Letter", "Legal", "Custom"}, {100}, {0, 10, 60},
             {fl \in FileLists(1) : fl.is_none \/ Len(fl.list) = 1})

(***************************************************************************)
(* main, lines 76-102.                                                     *)
(***************************************************************************)
\* line 76: the run in which the Process button was not pressed
NotPressed ==
    /\ pc = "start"
    /\ pc' = "done"
    /\ UNCHANGED <<inputs, index, locals, canvas, row, col, messages, downloads, disk, log>>

\* lines 76-78 and 101-102
Process ==
    /\ pc = "start"
    /\ IF label_files.is_none
       THEN /\ messages' = Append(messages, [kind |-> "error", file |-> <<>>])
            /\ pc' = "done"
            /\ index' = index
       ELSE /\ messages' = messages
            /\ pc' = "loop"
            /\ index' = 1
    /\ UNCHANGED <<inputs, locals, canvas, row, col, downloads, disk, log>>

\* line 78: the for loop has no image left
LoopExit ==
    /\ pc = "loop"
    /\ index > Len(label_files.list)
    /\ pc' = "done"
    /\ UNCHANGED <<inputs, index, locals, canvas, row, col, messages, downloads, disk, log>>

NewLogEntry(name, parsed) ==
    [file |-> name, parsed |-> parsed, layout_called |-> FALSE, layout_ok |-> FALSE,
     opened |-> FALSE, render_exited |-> FALSE, complete |-> FALSE,
     saves |-> 0]

\* open(name, "wb") and write: the file holds the new content
WriteFile(files, name, content) ==
    Append(SelectSeq(files, LAMBDA f : f.name # name), [name |-> name, content |-> content])

\* lines 78-89: copy the upload, build the two dicts, parse the dimensions.
\* A ValueError of line 88 is raised outside the try of line 92: it ends the run.
\* The copy of the upload (lines 81-82) is taken to succeed: storing uploads is
\* outside the two functions the properties are about.
PrepareImage ==
    /\ pc = "loop"
    /\ index <= Len(label_files.list)
    /\ LET label_file == label_files.list[index]
           info == [path |-> label_file, rows |-> label_rows, columns |-> label_columns]
           parsed == ParseDimensions(label_dimensions)
       IN  /\ disk' = WriteFile(disk, label_file, [kind |-> "image"])
           /\ page_settings' =
                 [page_size |-> page_size,
                  margins |-> [top |-> top_margin, bottom |-> bottom_margin,
                               left |-> left_margin, right |-> right_margin],
                  orientation |-> orientation]
           /\ IF label_dimensions = <<>>
              THEN /\ label_info' = info
                   /\ pc' = "layout"
                   /\ log' = Append(log, NewLogEntry(label_file, TRUE))
              ELSE IF parsed.ok
              THEN /\ label_info' = [dimensions |-> parsed.value] @@ info
                   /\ pc' = "layout"
                   /\ log' = Append(log, NewLogEntry(label_file, TRUE))
              ELSE /\ label_info' = info
                   /\ pc' = "crashed"
                   /\ log' = Append(log, NewLogEntry(label_file, FALSE))
    /\ UNCHANGED <<inputs, index, layout, output_filename, canvas, row, col,
                   messages, downloads>>

\* label_file.name of the image being processed (label_info['path'] holds it)
label_file_name(info) == info.path

\* lines 92-95: the call of calculate_layout inside the try, then the file name
CalcLayout ==
    /\ pc = "layout"
    /\ LET result == calculate_layout(page_settings, label_info)
           quantity == label_rows * label_columns
       IN  /\ label_info' = result.label_info
           /\ IF result.raised
              THEN /\ pc' = "except"
                   /\ layout' = layout
                   /\ output_filename' = output_filename
                   /\ log' = [log EXCEPT ![index].layout_called = TRUE]
              ELSE /\ pc' = "open"
                   /\ layout' = result.value
                   /\ output_filename' =
                         <<Stem(label_file_name(label_info)), Lower(page_size_display),
                           quantity, "pdf">>
                   /\ log' = [log EXCEPT ![index].layout_called = TRUE,
                                         ![index].layout_ok = TRUE]
    /\ UNCHANGED <<inputs, index, page_settings, canvas, row, col, messages,
                   downloads, disk>>

\* lines 37-38: canvas.Canvas(...) opens the document, ImageReader opens the
\* image; the image may be unreadable, and then create_pdf_labels raises.
OpenDocument ==
    /\ pc = "open"
    /\ \E readable \in BOOLEAN :
          IF readable
          THEN /\ canvas' = [pagesize |-> page_settings.page_size, draws |-> <<>>,
                             saves |-> 0, page_breaks |-> 0]
               /\ row' = 0
               /\ col' = 0
               /\ pc' = "draw"
               /\ log' = [log EXCEPT ![index].opened = TRUE]
          ELSE /\ canvas' = None
               /\ row' = row
               /\ col' = col
               /\ pc' = "except"
               /\ log' = [log EXCEPT ![index].opened = TRUE,
                                     ![index].render_exited = TRUE]
    /\ UNCHANGED <<inputs, index, locals, messages, downloads, disk>>

\* (mutant) a failing drawImage is swallowed and the partial page is saved
DrawImage_Swallow ==
    /\ pc = "draw"
    /\ \E drawn \in BOOLEAN :
          LET last_col == col + 1 >= label_info.columns
              last == last_col /\ row + 1 >= label_info.rows
          IN  /\ canvas' = IF drawn
                           THEN [canvas EXCEPT !.draws =
                                    Append(@, [x |-> draw_x(page_settings, layout, col),
                                               y |-> draw_y(page_settings, layout, row),
                                               width |-> layout.label_width,
                                               height |-> layout.label_height,
                                               preserveAspectRatio |-> TRUE])]
                           ELSE canvas
              /\ col' = IF drawn /\ ~last_col THEN col + 1 ELSE 0
              /\ row' = IF drawn /\ ~last_col THEN row ELSE row + 1
              /\ pc' = IF drawn /\ ~last THEN "draw" ELSE "save"
              /\ log' = [log EXCEPT ![index].complete = drawn /\ last]
    /\ UNCHANGED <<inputs, index, locals, messages, downloads, disk>>

\* lines 39-43: one pass of the inner loop body; drawImage may raise
DrawImage ==
    /\ pc = "draw"
    /\ \E drawn \in BOOLEAN :
          IF drawn
          THEN LET x == draw_x(page_settings, layout, col)
                   y == draw_y(page_settings, layout, row)
                   last_col == col + 1 >= label_info.columns
                   last == last_col /\ row + 1 >= label_info.rows
               IN  /\ canvas' = [canvas EXCEPT !.draws =
                          Append(@, [x |-> x, y |-> y, width |-> layout.label_width,
                                     height |-> layout.label_height,
                                     preserveAspectRatio |-> TRUE])]
                   /\ col' = IF last_col THEN 0 ELSE col + 1
                   /\ row' = IF last_col THEN row + 1 ELSE row
                   /\ pc' = IF last THEN "save" ELSE "draw"
                   /\ log' = [log EXCEPT ![index].complete = last]
          ELSE /\ canvas' = None
               /\ row' = 0
               /\ col' = 0
               /\ pc' = "except"
               /\ log' = [log EXCEPT ![index].render_exited = TRUE]
    /\ UNCHANGED <<inputs, index, locals, messages, downloads, disk>>

\* lines 44-45: c.save() writes the document, create_pdf_labels returns;
\* the write may fail, and then create_pdf_labels raises.
SaveDocument ==
    /\ pc = "save"
    /\ \E written \in BOOLEAN :
          IF written
          THEN /\ disk' = WriteFile(disk, output_filename,
                                    [kind |-> "pdf", draws |-> canvas.draws,
                                     page_breaks |-> canvas.page_breaks])
               /\ pc' = "surface"
               /\ log' = [log EXCEPT ![index].saves = @ + 1,
                                     ![index].render_exited = TRUE]
          ELSE /\ disk' = disk
               /\ pc' = "except"
               /\ log' = [log EXCEPT ![index].render_exited = TRUE]
    /\ canvas' = None
    /\ row' = 0
    /\ col' = 0
    /\ UNCHANGED <<inputs, index, locals, messages, downloads>>

ReadFile(files, name) ==
    LET found == SelectSeq(files, LAMBDA f : f.name = name) IN found[1].content

\* lines 97-98: the success message, then the download offer with the bytes
\* read back from the written file; the read may fail.
Surface ==
    /\ pc = "surface"
    /\ messages' = Append(messages, [kind |-> "success", file |-> label_file_name(label_info)])
    /\ \E readable \in BOOLEAN :
          IF readable
          THEN /\ downloads' = Append(downloads,
                      [file_name |-> output_filename, source |-> index,
                       data |-> ReadFile(disk, output_filename)])
               /\ pc' = "loop"
               /\ index' = index + 1
          ELSE /\ downloads' = downloads
               /\ pc' = "except"
               /\ index' = index
    /\ UNCHANGED <<inputs, locals, canvas, row, col, disk, log>>

\* (mutant) the except clause reports the image and leaves the loop
HandleError_Break ==
    /\ pc = "except"
    /\ messages' = Append(messages, [kind |-> "error", file |-> label_file_name(label_info)])
    /\ pc' = "done"
    /\ index' = index + 1
    /\ UNCHANGED <<inputs, locals, canvas, row, col, downloads, disk, log>>

\* lines 99-100: the except clause reports the image and the loop goes on
HandleError ==
    /\ pc = "except"
    /\ messages' = Append(messages, [kind |-> "error", file |-> label_file_name(label_info)])
    /\ pc' = "loop"
    /\ index' = index + 1
    /\ UNCHANGED <<inputs, locals, canvas, row, col, downloads, disk, log>>

Next ==
    \/ NotPressed
    \/ Process
    \/ LoopExit
    \/ PrepareImage
    \/ CalcLayout
    \/ OpenDocument
    \/ DrawImage
    \/ SaveDocument
    \/ Surface
    \/ HandleError

Spec == Init /\ [][Next]_vars

SpecOne == InitOne /\ [][Next]_vars

(***************************************************************************)
(* Vocabulary of the properties.                                           *)
(***************************************************************************)
Images == 1..Len(log)

\* st.error has reported image i
ErrorReported(i) ==
    \E m \in 1..Len(messages) :
        messages[m].kind = "error" /\ messages[m].file = log[i].file

\* a document of image i is offered for download
Exposed(i) == \E k \in 1..Len(downloads) : downloads[k].source = i

\* the try block of image i ended in an exception of calculate_layout or of
\* create_pdf_labels
FailedInTry(i) ==
    /\ log[i].layout_called
    /\ \/ ~log[i].layout_ok
       \/ log[i].render_exited /\ log[i].saves = 0

\* the run is over: the loop ended, or an exception left main
Ended == pc \in {"done", "crashed"}

\* the available area and the cell size, from the widget values, in points
AvailableWidth == RSub(page_size[1], RAdd(MM(FromInt(left_margin)), MM(FromInt(right_margin))))

AvailableHeight == RSub(page_size[2], RAdd(MM(FromInt(top_margin)), MM(FromInt(bottom_margin))))

Explicit == label_dimensions # <<>>

CellWidth ==
    IF Explicit THEN MM(ParseDimensions(label_dimensions).value[1])
    ELSE RDiv(AvailableWidth, FromInt(label_columns))

CellHeight ==
    IF Explicit THEN MM(ParseDimensions(label_dimensions).value[2])
    ELSE RDiv(AvailableHeight, FromInt(label_rows))

Negative(a) == a.n < 0

(***************************************************************************)
(* C1.  Batch isolation: when calculate_layout or create_pdf_labels raises *)
(* for image i, an error is reported for image i once the handler has run, *)
(* the run does not end in an exception, and when the loop ends every      *)
(* later image has been taken through its own layout; every image whose    *)
(* layout and rendering succeeded has its saved document on disk.          *)
(***************************************************************************)
C1_BatchIsolation ==
    \A i \in Images :
        /\ (FailedInTry(i) /\ (index > i \/ Ended)) =>
              /\ ErrorReported(i)
              /\ pc # "crashed"
        /\ (FailedInTry(i) /\ Ended) =>
              /\ Len(log) = Len(label_files.list)
              /\ \A j \in (i + 1)..Len(label_files.list) : log[j].layout_called
        /\ (log[i].layout_ok /\ log[i].complete /\ log[i].saves = 1) =>
              \E f \in 1..Len(disk) :
                  /\ disk[f].content.kind = "pdf"
                  /\ disk[f].name[1] = Stem(log[i].file)
                  /\ Len(disk[f].content.draws) = label_rows * label_columns

\* a batch of 3 whose image 2 failed while images 1 and 3 yielded documents
C1_Witness ==
    /\ pc = "done"
    /\ Len(log) = 3
    /\ FailedInTry(2) /\ ErrorReported(2) /\ ~Exposed(2)
    /\ log[1].saves = 1 /\ Exposed(1)
    /\ log[3].saves = 1 /\ Exposed(3)

(***************************************************************************)
(* C2.  Every exit of create_pdf_labels, by return or by exception, leaves *)
(* the document it opened saved exactly once.                              *)
(***************************************************************************)
C2_SavedOnceOnEveryExit ==
    \A i \in Images : log[i].render_exited => log[i].saves = 1

(***************************************************************************)
(* C3.  A document is offered for download only for an image whose layout  *)
(* succeeded, whose draw calls all completed and whose save completed, and *)
(* the offered bytes are that complete document; an image that was         *)
(* reported as failed has no document offered.                             *)
(***************************************************************************)
C3_ExposedOnlyWhenFinalized ==
    /\ \A k \in 1..Len(downloads) :
          LET e == log[downloads[k].source]
          IN  /\ e.layout_ok /\ e.complete /\ e.saves = 1
              /\ downloads[k].data.kind = "pdf"
              /\ Len(downloads[k].data.draws) = label_rows * label_columns
    /\ \A i \in Images : (ErrorReported(i) \/ FailedInTry(i)) => ~Exposed(i)

\* a run that ended with one image exposed and one image failed part-way
\* through its draw calls
C3_Witness ==
    /\ pc = "done"
    /\ \E i \in Images : Exposed(i)
    /\ \E i \in Images :
          /\ log[i].opened /\ ~log[i].complete /\ log[i].render_exited
          /\ ErrorReported(i) /\ ~Exposed(i)

(***************************************************************************)
(* C4.  calculate_layout raises exactly when the cell (explicit or         *)
(* derived) is wider than the available width or taller than the available *)
(* height; otherwise it returns the layout with that cell size.            *)
(***************************************************************************)
C4_TooLargeIff ==
    \A i \in Images :
        log[i].layout_called =>
            /\ log[i].layout_ok <=>
                  ~(RGt(CellWidth, AvailableWidth) \/ RGt(CellHeight, AvailableHeight))
            /\ (log[i].layout_ok /\ pc = "open") =>
                  /\ layout.label_width = CellWidth
                  /\ layout.label_height = CellHeight

\* 100 x 100 page, no margins, 1 x 1, cell 150 x 50: rejected
C4_Witness ==
    /\ page_size = <<MM(FromInt(100)), MM(FromInt(100))>>
    /\ top_margin = 0 /\ bottom_margin = 0 /\ left_margin = 0 /\ right_margin = 0
    /\ label_rows = 1 /\ label_columns = 1
    /\ label_dimensions = <<"1", "5", "0", "x", "5", "0">>
    /\ pc = "except"
    /\ log[index].layout_called /\ ~log[index].layout_ok

ExpectedDraw(k) ==
    LET r == (k - 1) \div label_columns
        c == (k - 1) % label_columns
    IN  [x |-> RAdd(MM(FromInt(left_margin)),
                    RMul(FromInt(c), RAdd(layout.label_width, layout.space_x))),
         y |-> RSub(page_size[2],
                    RAdd(RAdd(MM(FromInt(top_margin)),
                              RMul(FromInt(r + 1), layout.label_height)),
                         RMul(FromInt(r), layout.space_y))),
         width |-> layout.label_width,
         height |-> layout.label_height,
         preserveAspectRatio |-> TRUE]

C6_RowMajorGrid ==
    /\ canvas # None =>
          /\ Len(canvas.draws) <= label_rows * label_columns
          /\ \A k \in 1..Len(canvas.draws) : canvas.draws[k] = ExpectedDraw(k)
          /\ canvas.page_breaks = 0
          /\ canvas.saves = 0
          /\ pc = "save" <=> Len(canvas.draws) = label_rows * label_columns
    /\ \A i \in Images :
          /\ log[i].saves <= 1
          /\ log[i].saves = 1 => log[i].complete
    /\ pc = "surface" =>
          LET doc == ReadFile(disk, output_filename)
          IN  /\ log[index].saves = 1
              /\ doc.page_breaks = 0
              /\ Len(doc.draws) = label_rows * label_columns
              /\ \A k \in 1..Len(doc.draws) : doc.draws[k] = ExpectedDraw(k)

\* the saved 2 x 2 grid on A4 with 10 mm margins: x = 10 mm in column 0,
\* x = 105 mm in column 1, y = 10 mm in row 1
C6_Witness ==
    /\ pc = "surface"
    /\ page_size = <<MM(FromInt(210)), MM(FromInt(297))>>
    /\ top_margin = 10 /\ bottom_margin = 10 /\ left_margin = 10 /\ right_margin = 10
    /\ label_rows = 2 /\ label_columns = 2
    /\ ~Explicit
    /\ LET doc == ReadFile(disk, output_filename)
       IN  /\ Len(doc.draws) = 4
           /\ doc.draws[1].x = MM(FromInt(10))
           /\ doc.draws[2].x = MM(FromInt(105))
           /\ doc.draws[3].x = MM(FromInt(10))
           /\ doc.draws[3].y = MM(FromInt(10))
           /\ doc.draws[1].y = MM(Rat(297, 2))

(***************************************************************************)
(* C7.  Whenever the available width or the available height is negative,  *)
(* calculate_layout raises the too-large error.                            *)
(***************************************************************************)
C7_NegativeAreaRejected ==
    \A i \in Images :
        (log[i].layout_called /\ (Negative(AvailableWidth) \/ Negative(AvailableHeight)))
            => ~log[i].layout_ok

(***************************************************************************)
(* C8.  calculate_layout leaves its two arguments as they were passed: the *)
(* label request has a "dimensions" entry only if the user gave one, and   *)
(* the page settings are the ones main built.                              *)
(***************************************************************************)
C8_ArgumentsUnchanged ==
    label_info # None =>
        /\ "dimensions" \in DOMAIN label_info <=> Explicit
        /\ page_settings =
              [page_size |-> page_size,
               margins |-> [top |-> top_margin, bottom |-> bottom_margin,
                            left |-> left_margin, right |-> right_margin],
               orientation |-> orientation]

(***************************************************************************)
(* C9.  A malformed dimension text fails before calculate_layout is        *)
(* called, is reported as an error of that image, and does not end the     *)
(* run: the loop goes on to the next image.                                *)
(***************************************************************************)
C9_FormatErrorIsolated ==
    \A i \in Images :
        ~log[i].parsed =>
            /\ ~log[i].layout_called
            /\ pc # "crashed"
            /\ (index > i \/ Ended) => ErrorReported(i)

====
